---- MODULE Spec2Model ----
(***************************************************************************)
(* Session orchestration and HLS composition of the WebRTC/HLS backend.    *)
(*                                                                         *)
(* The repository holds two generations of the backend.                    *)
(*   - The module-level registries of Backend/src/WebSocket.ts, the flat   *)
(*     MediasoupManager and the multi-participant HLSManager with the HTTP *)
(*     routes of server.ts.                                                *)
(*   - The class based SignalingServer with MediasoupManager/Room/Peer and *)
(*     the HLSManager.startHLSForRoom it drives.                           *)
(* Every handler is cut at its awaits on real I/O (engine calls, timers,   *)
(* file system promises): the code between two such awaits is one action.  *)
(***************************************************************************)
EXTENDS Integers, FiniteSets, Sequences, TLC

(***************************************************************************)
(* Bounds of the model.                                                    *)
(***************************************************************************)
MaxSockets == 2
MaxRooms == 2
MaxProducers == 2
MaxTransports == 1
MaxJobs == 2
MaxPublishers == 5
MaxListLength == 6
MaxPeerObjects == 2
MaxProcs == 2
MaxConsumers == 1

\* "HLS not supported for more than 4 users"
MaxParticipants == 4

\* const basePort = 20000 + (i * 4)
BasePort == 20000

\* startHLSStream(roomId, participants, videoWidth = 1280, videoHeight = 720)
VideoWidth == 1280
VideoHeight == 720

\* setInterval(..., 2000), cleared by setTimeout(..., 5000)
IntervalMs == 2000
WarmupMs == 5000

\* The round at "start" and the interval ticks that fit before the clear.
MaxRounds == 1 + ((WarmupMs - 1) \div IntervalMs)

Sockets == 1..MaxSockets
RoomIds == 1..MaxRooms
Kinds == {"audio", "video"}
NoKind == "none"

(***************************************************************************)
(* State of Backend/src/WebSocket.ts and of the flat MediasoupManager.     *)
(***************************************************************************)
VARIABLES
  connected,      \* sockets whose "disconnect" has not fired yet
  rooms,          \* Map roomId -> [peers, producers]
  peers,          \* Map socket.id -> roomId
  transports,     \* MediasoupManager.transports: Map id -> transport (the socket
                  \* whose request created it)
  producers,      \* MediasoupManager.producers: Map id -> peerId
  produceReq,     \* per socket: the produce request awaiting the engine
  nextProducer,   \* ids the engine has handed out so far
  created,        \* per room id: how often rooms.set(roomId, {...}) has run
  leaveLog,       \* the peer-left notifications emitted so far
  consumers,      \* MediasoupManager.consumers: Map id -> [peerId, producerId, paused]
  consumeReq,     \* per socket: the producer id of the consume awaiting the engine
  nextConsumer,   \* consumer ids the engine has handed out so far
  announced,      \* the producer ids a new-producer notification was emitted for
  lastError       \* the last error reply: the socket it went to and its request

consVars == <<consumers, consumeReq, nextConsumer>>

sigVars == <<connected, rooms, peers, transports, producers, produceReq, nextProducer,
             created, leaveLog, consVars, announced, lastError>>

NoError == [to |-> 0, request |-> "none"]

Descriptor(id, kind, peerId) == [producerId |-> id, kind |-> kind, peerId |-> peerId]

MapSet(m, k, v) == [x \in DOMAIN m \cup {k} |-> IF x = k THEN v ELSE m[x]]
MapDelete(m, k) == [x \in DOMAIN m \ {k} |-> m[x]]
EmptyMap == [x \in {} |-> 0]

NewRoom == [peers |-> {}, producers |-> {}]

SigInit ==
  /\ connected = Sockets
  /\ rooms = EmptyMap
  /\ peers = EmptyMap
  /\ transports = EmptyMap
  /\ producers = EmptyMap
  /\ produceReq = [s \in Sockets |-> NoKind]
  /\ nextProducer = 0
  /\ created = [r \in RoomIds |-> 0]
  /\ leaveLog = {}
  /\ consumers = EmptyMap
  /\ consumeReq = [s \in Sockets |-> 0]
  /\ nextConsumer = 0
  /\ announced = {}
  /\ lastError = NoError

\* Mutant: every join stores a new room object under the id.
RoomsAfterJoinFresh(s, r) ==
  MapSet(rooms, r, [NewRoom EXCEPT !.peers = {s}])

\* socket.on("join-room"): the room is created when unknown, the socket is
\* added to it and recorded in the connection registry.
RoomsAfterJoin(s, r) ==
  LET base == IF r \in DOMAIN rooms THEN rooms ELSE MapSet(rooms, r, NewRoom)
  IN MapSet(base, r, [base[r] EXCEPT !.peers = @ \cup {s}])

JoinRoom(s, r) ==
  /\ s \in connected
  /\ rooms' = RoomsAfterJoin(s, r)
  /\ peers' = MapSet(peers, s, r)
  /\ created' = IF r \in DOMAIN rooms THEN created ELSE [created EXCEPT ![r] = @ + 1]
  /\ UNCHANGED <<connected, transports, producers, produceReq, nextProducer, leaveLog,
                 consVars, announced, lastError>>

\* socket.on("create-transport"): the transport is stored under its id; the
\* registry does not record the requesting socket, the value kept here is
\* history.
CreateTransport(s) ==
  /\ s \in connected
  /\ Cardinality(DOMAIN transports) < MaxTransports
  /\ transports' = MapSet(transports, Cardinality(DOMAIN transports) + 1, s)
  /\ UNCHANGED <<connected, rooms, peers, producers, produceReq, nextProducer, created, leaveLog,
                 consVars, announced, lastError>>

\* socket.on("produce") up to the await of transport.produce(): an unknown
\* transport id throws and is answered with an error, nothing changes.
ProduceBegin(s, t, kind) ==
  /\ s \in connected
  /\ produceReq[s] = NoKind
  /\ t \in DOMAIN transports
  /\ produceReq' = [produceReq EXCEPT ![s] = kind]
  /\ UNCHANGED <<connected, rooms, peers, transports, producers, nextProducer, created, leaveLog,
                 consVars, announced, lastError>>

\* What the catch block of the produce handler leaves of the registries.
ProduceErrorReply(s) ==
  /\ lastError' = [to |-> s, request |-> "produce"]
  /\ UNCHANGED <<connected, rooms, peers, transports, producers, nextProducer, created, leaveLog,
                 consVars, announced>>

ProduceUnknownTransport(s, t) ==
  /\ s \in connected
  /\ produceReq[s] = NoKind
  /\ t \notin DOMAIN transports
  /\ UNCHANGED produceReq
  /\ ProduceErrorReply(s)

\* The descriptor is stored in the room the connection registry names for the
\* socket, when both the registry entry and the room exist.
RoomsAfterProduce(s, id, kind) ==
  IF s \in DOMAIN peers /\ peers[s] \in DOMAIN rooms
  THEN MapSet(rooms, peers[s],
              [rooms[peers[s]] EXCEPT !.producers = @ \cup {Descriptor(id, kind, s)}])
  ELSE rooms

\* Mutant: the failed produce is announced to the room all the same.
ProduceFailAnnounces(s) ==
  /\ produceReq[s] # NoKind
  /\ produceReq' = [produceReq EXCEPT ![s] = NoKind]
  /\ lastError' = [to |-> s, request |-> "produce"]
  /\ announced' = announced \cup {nextProducer + 1}
  /\ UNCHANGED <<connected, rooms, peers, transports, producers, nextProducer, created, leaveLog,
                 consVars>>

\* The engine answers the produce: MediasoupManager records the producer and
\* the handler registers its descriptor and, when the connection registry
\* knows the socket, emits new-producer to the room.
ProduceEnd(s) ==
  /\ produceReq[s] # NoKind
  /\ nextProducer < MaxProducers
  /\ nextProducer' = nextProducer + 1
  /\ producers' = MapSet(producers, nextProducer + 1, s)
  /\ rooms' = RoomsAfterProduce(s, nextProducer + 1, produceReq[s])
  /\ produceReq' = [produceReq EXCEPT ![s] = NoKind]
  /\ announced' = IF s \in DOMAIN peers THEN announced \cup {nextProducer + 1} ELSE announced
  /\ UNCHANGED <<connected, peers, transports, created, leaveLog, consVars, lastError>>

\* The engine rejects the produce: the handler answers with an error.
ProduceFail(s) ==
  /\ produceReq[s] # NoKind
  /\ produceReq' = [produceReq EXCEPT ![s] = NoKind]
  /\ ProduceErrorReply(s)

\* Mutant: the engine is asked for a running consumer.
NewConsumerRunning(s, p) == [peerId |-> s, producerId |-> p, paused |-> FALSE]

\* transport.consume({producerId, rtpCapabilities, paused: true}) and
\* consumers.set(consumer.id, {consumer, peerId}).
NewConsumer(s, p) == [peerId |-> s, producerId |-> p, paused |-> TRUE]

\* The catch block of the consume handler.
ConsumeErrorReply(s) ==
  /\ lastError' = [to |-> s, request |-> "consume"]
  /\ UNCHANGED <<connected, rooms, peers, transports, producers, produceReq, nextProducer,
                 created, leaveLog, consumers, nextConsumer, announced>>

\* MediasoupManager.consume up to the await of transport.consume(): the
\* transport and the producer are looked up in the manager's own maps and the
\* router is asked whether the capabilities fit (can).
ConsumeChecks(t, p, can) == t \in DOMAIN transports /\ p \in DOMAIN producers /\ can

\* socket.on("consume") up to the await.
ConsumeBegin(s, t, p, can) ==
  /\ s \in connected
  /\ consumeReq[s] = 0
  /\ nextConsumer < MaxConsumers
  /\ ConsumeChecks(t, p, can)
  /\ consumeReq' = [consumeReq EXCEPT ![s] = p]
  /\ UNCHANGED <<connected, rooms, peers, transports, producers, produceReq, nextProducer,
                 created, leaveLog, consumers, nextConsumer, announced, lastError>>

\* One of the checks throws: the handler answers with an error.
ConsumeReject(s, t, p, can) ==
  /\ s \in connected
  /\ consumeReq[s] = 0
  /\ ~ConsumeChecks(t, p, can)
  /\ UNCHANGED consumeReq
  /\ ConsumeErrorReply(s)

\* The engine answers the consume (it does while it holds the producer): the
\* consumer is recorded under the requesting socket's id.
ConsumeEnd(s) ==
  /\ consumeReq[s] # 0
  /\ consumeReq[s] \in DOMAIN producers
  /\ nextConsumer < MaxConsumers
  /\ nextConsumer' = nextConsumer + 1
  /\ consumers' = MapSet(consumers, nextConsumer + 1, NewConsumer(s, consumeReq[s]))
  /\ consumeReq' = [consumeReq EXCEPT ![s] = 0]
  /\ UNCHANGED <<connected, rooms, peers, transports, producers, produceReq, nextProducer,
                 created, leaveLog, announced, lastError>>

\* The engine rejects the consume.
ConsumeFail(s) ==
  /\ consumeReq[s] # 0
  /\ consumeReq' = [consumeReq EXCEPT ![s] = 0]
  /\ ConsumeErrorReply(s)

\* socket.on("resume-consumer") for an id MediasoupManager.consumers holds:
\* consumer.resume(); the requester is not compared with the owner.
ResumeConsumer(s, c) ==
  /\ s \in connected
  /\ c \in DOMAIN consumers
  /\ consumers' = [consumers EXCEPT ![c] = [@ EXCEPT !.paused = FALSE]]
  /\ UNCHANGED <<connected, rooms, peers, transports, producers, produceReq, nextProducer,
                 created, leaveLog, consumeReq, nextConsumer, announced, lastError>>

\* resume-consumer for an unknown id: "Consumer not found", an error reply.
ResumeUnknown(s, c) ==
  /\ s \in connected
  /\ c \notin DOMAIN consumers
  /\ lastError' = [to |-> s, request |-> "resume-consumer"]
  /\ UNCHANGED <<connected, rooms, peers, transports, producers, produceReq, nextProducer,
                 created, leaveLog, consVars, announced>>

\* Mutant: the emptied room stays in the registry.
RoomsAfterDisconnectKeepsRoom(s) ==
  IF s \in DOMAIN peers /\ peers[s] \in DOMAIN rooms
  THEN LET r == peers[s]
       IN MapSet(rooms, r, [peers |-> rooms[r].peers \ {s},
                            producers |-> {d \in rooms[r].producers : d.peerId # s}])
  ELSE rooms

\* Mutant: the descriptors of the leaving socket stay in the registry.
RoomsAfterDisconnectKeepsProducers(s) ==
  IF s \in DOMAIN peers /\ peers[s] \in DOMAIN rooms
  THEN LET r == peers[s]
           left == [rooms[r] EXCEPT !.peers = @ \ {s}]
       IN IF left.peers = {} THEN MapDelete(rooms, r) ELSE MapSet(rooms, r, left)
  ELSE rooms

\* socket.on("disconnect"): the socket leaves the room its registry entry
\* names, its descriptors are dropped and an emptied room is deleted.
RoomsAfterDisconnect(s) ==
  IF s \in DOMAIN peers /\ peers[s] \in DOMAIN rooms
  THEN LET r == peers[s]
           left == [peers |-> rooms[r].peers \ {s},
                    producers |-> {d \in rooms[r].producers : d.peerId # s}]
       IN IF left.peers = {} THEN MapDelete(rooms, r) ELSE MapSet(rooms, r, left)
  ELSE rooms

\* MediasoupManager.cleanupPeerResources
cleanupPeerResources(s) == [id \in {i \in DOMAIN producers : producers[i] # s} |-> producers[id]]

\* cleanupPeerResources closes and deletes the consumers of the peer; closing
\* its producers fires "producerclose" on their consumers, which deletes them.
ConsumersAfterCleanup(s) ==
  [id \in {i \in DOMAIN consumers :
             /\ consumers[i].peerId # s
             /\ ~(consumers[i].producerId \in DOMAIN producers
                    /\ producers[consumers[i].producerId] = s)} |-> consumers[id]]

\* Mutant: the notification is emitted before the descriptors are dropped.
RoomsAtLeaveBeforeRemoval(s) == rooms

\* The room registry at the moment socket.to(roomId).emit("peer-left") runs:
\* after the membership and descriptor deletions of the handler.
RoomsAtLeave(s) == RoomsAfterDisconnect(s)

\* The engine registries at that moment: cleanupPeerResources has not run yet.
ProducersAtLeave(s) == producers

Owns(reg, r, s) == r \in DOMAIN reg /\ \E d \in reg[r].producers : d.peerId = s

\* What an observer of the peer-left for s can see when it is emitted.
PeerLeft(s) ==
  [peerId |-> s, roomId |-> peers[s],
   hadProducers |-> Owns(rooms, peers[s], s),
   listed |-> Owns(RoomsAtLeave(s), peers[s], s),
   open |-> \/ \E id \in DOMAIN ProducersAtLeave(s) : ProducersAtLeave(s)[id] = s
            \/ \E t \in DOMAIN transports : transports[t] = s]

Disconnect(s) ==
  /\ s \in connected
  /\ connected' = connected \ {s}
  /\ rooms' = RoomsAfterDisconnect(s)
  /\ leaveLog' = IF s \in DOMAIN peers THEN leaveLog \cup {PeerLeft(s)} ELSE leaveLog
  /\ producers' = cleanupPeerResources(s)
  /\ consumers' = ConsumersAfterCleanup(s)
  /\ peers' = MapDelete(peers, s)
  /\ UNCHANGED <<transports, produceReq, nextProducer, created, consumeReq, nextConsumer,
                 announced, lastError>>

getRoomList == {[id |-> r, participants |-> Cardinality(rooms[r].peers)] : r \in DOMAIN rooms}

getRoomProducers(r) == IF r \in DOMAIN rooms THEN rooms[r].producers ELSE {}

SigNext ==
  \/ \E s \in Sockets, r \in RoomIds : JoinRoom(s, r)
  \/ \E s \in Sockets : CreateTransport(s)
  \/ \E s \in Sockets, t \in 1..MaxTransports, k \in Kinds : ProduceBegin(s, t, k)
  \/ \E s \in Sockets, t \in 1..MaxTransports : ProduceUnknownTransport(s, t)
  \/ \E s \in Sockets : ProduceEnd(s)
  \/ \E s \in Sockets : ProduceFail(s)
  \/ \E s \in Sockets : Disconnect(s)

\* The consume and resume-consumer handlers.
ConsumeSteps ==
  \/ \E s \in Sockets, t \in 1..MaxTransports, p \in 1..MaxProducers, can \in BOOLEAN :
       ConsumeBegin(s, t, p, can)
  \/ \E s \in Sockets, t \in 1..MaxTransports, p \in 1..MaxProducers, can \in BOOLEAN :
       ConsumeReject(s, t, p, can)
  \/ \E s \in Sockets : ConsumeEnd(s)
  \/ \E s \in Sockets : ConsumeFail(s)
  \/ \E s \in Sockets, c \in 1..MaxConsumers : ResumeConsumer(s, c)
  \/ \E s \in Sockets, c \in 1..MaxConsumers : ResumeUnknown(s, c)

\* A running server: the sockets of J have joined room 1, the others are
\* connected and have not joined any room.
JoinedInit ==
  \E J \in SUBSET Sockets :
    /\ connected = Sockets
    /\ rooms = IF J = {} THEN EmptyMap ELSE [r \in {1} |-> [NewRoom EXCEPT !.peers = J]]
    /\ peers = [s \in J |-> 1]
    /\ transports = EmptyMap
    /\ producers = EmptyMap
    /\ produceReq = [s \in Sockets |-> NoKind]
    /\ nextProducer = 0
    /\ created = [r \in RoomIds |-> IF r = 1 /\ J # {} THEN 1 ELSE 0]
    /\ leaveLog = {}
    /\ consumers = EmptyMap
    /\ consumeReq = [s \in Sockets |-> 0]
    /\ nextConsumer = 0
    /\ announced = {}
    /\ lastError = NoError

\* The media handlers of sockets that have or have not joined.
MediaNext ==
  \/ \E s \in Sockets : CreateTransport(s)
  \/ \E s \in Sockets, t \in 1..MaxTransports, k \in Kinds : ProduceBegin(s, t, k)
  \/ \E s \in Sockets, t \in 1..MaxTransports : ProduceUnknownTransport(s, t)
  \/ \E s \in Sockets : ProduceEnd(s)
  \/ \E s \in Sockets : ProduceFail(s)
  \/ ConsumeSteps
  \/ \E s \in Sockets : Disconnect(s)

(***************************************************************************)
(* State of the multi-participant HLSManager and of the file system under  *)
(* public/hls.  A job is one invocation of startHLSStream together with    *)
(* the HLSStream object it builds.                                         *)
(***************************************************************************)
VARIABLES
  streams,        \* HLSManager.streams: Map roomId -> the registered HLSStream
  job,            \* per invocation: position, arguments and HLSStream fields
  dir,            \* per room: the output directory public/hls/<roomId>
  stopSeen        \* history: a stop request arrived while the start was in flight

hlsVars == <<streams, job, dir, stopSeen>>

Jobs == 1..MaxJobs
Publishers == 1..MaxPublishers

\* Positions of startHLSStream between two awaits.
InFlight == {"alloc", "connect", "launch", "waiting"}
Finished == {"done", "failed"}

\* No filter graph has been generated.
NoFilter == [tiles |-> << >>, arrange |-> "none", amix |-> 0]

IdleJob ==
  [pc |-> "idle", roomId |-> 0, n |-> 0, taps |-> 0, loose |-> 0, closed |-> FALSE,
   ports |-> 0, proc |-> "null", sigterm |-> FALSE, url |-> << >>, err |-> "none",
   expired |-> FALSE, sawReady |-> FALSE, filter |-> NoFilter,
   keyframeInterval |-> FALSE, checkTimer |-> FALSE, killTimer |-> FALSE, late |-> {},
   rounds |-> 0, requested |-> {}, sdp |-> << >>]

\* Mutant: three participants are laid out like four.
generateFilterComplexGrid(participantCount) ==
  CASE participantCount = 1 ->
         [tiles |-> << <<1280, 720>> >>, arrange |-> "full", amix |-> 1]
    [] participantCount = 2 ->
         [tiles |-> << <<640, 720>>, <<640, 720>> >>, arrange |-> "hstack", amix |-> 2]
    [] participantCount \in {3, 4} ->
         [tiles |-> << <<640, 360>>, <<640, 360>>, <<640, 360>>, <<640, 360>> >>,
          arrange |-> "hstack,hstack,vstack", amix |-> participantCount]
    [] OTHER -> [tiles |-> << >>, arrange |-> "error", amix |-> 0]

\* generateFilterComplex(participantCount): the scale of every video input in
\* input order, how the scaled tiles are stacked, and the number of audio
\* inputs mixed; the default branch throws.
generateFilterComplex(participantCount) ==
  CASE participantCount = 1 ->
         [tiles |-> << <<1280, 720>> >>, arrange |-> "full", amix |-> 1]
    [] participantCount = 2 ->
         [tiles |-> << <<640, 720>>, <<640, 720>> >>, arrange |-> "hstack", amix |-> 2]
    [] participantCount = 3 ->
         [tiles |-> << <<853, 720>>, <<427, 360>>, <<427, 360>> >>,
          arrange |-> "vstack-right,hstack", amix |-> 3]
    [] participantCount = 4 ->
         [tiles |-> << <<640, 360>>, <<640, 360>>, <<640, 360>>, <<640, 360>> >>,
          arrange |-> "hstack,hstack,vstack", amix |-> 4]
    [] OTHER -> [tiles |-> << >>, arrange |-> "error", amix |-> 0]

\* Mutant: a tap gets two ports only.
TapPortsNarrow(i) ==
  [video |-> BasePort + (i * 2), videoRtcp |-> BasePort + (i * 2) + 1,
   audio |-> BasePort + (i * 2) + 2, audioRtcp |-> BasePort + (i * 2) + 3]

\* Math.ceil(Math.sqrt(n))
CeilSqrt(n) == CHOOSE k \in 0..n : k * k >= n /\ (k = 0 \/ (k - 1) * (k - 1) < n)

\* The width and height createVideoSDP is called with, for every participant
\* of a job with participantCount taps (they divide evenly for 1..4 taps).
SdpFrameSize(participantCount) ==
  <<VideoWidth \div CeilSqrt(participantCount), VideoHeight \div CeilSqrt(participantCount)>>

\* The ports of the i-th participant of a job (i counts from 0): videoPort and
\* audioPort of the allocation loop, and the rtcpPort each transport is
\* connected with.
TapPorts(i) ==
  [video |-> BasePort + (i * 4), videoRtcp |-> BasePort + (i * 4) + 1,
   audio |-> BasePort + (i * 4) + 2, audioRtcp |-> BasePort + (i * 4) + 3]

PortSet(i) == {TapPorts(i).video, TapPorts(i).videoRtcp, TapPorts(i).audio, TapPorts(i).audioRtcp}

\* The ports assigned to the taps a job holds in stream.participants.
AssignedPorts(st) == UNION {PortSet(i) : i \in 0..(st.taps - 1)}

HlsInit ==
  /\ streams = EmptyMap
  /\ job = [j \in Jobs |-> IdleJob]
  /\ dir = [r \in RoomIds |-> "absent"]
  /\ stopSeen = [j \in Jobs |-> FALSE]

\* getStreamUrl: `/hls/${roomId}/stream.m3u8`, as its path segments.
getStreamUrl(r) == <<"hls", r, "stream.m3u8">>

\* The null of a JSON reply.
Null == <<"null">>

isStreamActive(r) == r \in DOMAIN streams

\* GET /api/hls/status/:roomId
HlsStatus(r) ==
  [isActive |-> isStreamActive(r),
   streamUrl |-> IF isStreamActive(r) THEN getStreamUrl(r) ELSE Null,
   roomId |-> r]

\* fs.mkdirSync when the directory does not exist yet.
MkDir(r) == [dir EXCEPT ![r] = IF @ = "absent" THEN "empty" ELSE @]

\* Mutant: the participant count is not limited.
StartOutcomeNoCapacity(r, n) ==
  IF n = 0 THEN "empty"
  ELSE IF r \in DOMAIN streams THEN "existing"
  ELSE "allocate"

\* The checks at the head of startHLSStream, in the order of the code.
StartOutcome(r, n) ==
  IF n = 0 THEN "empty"
  ELSE IF n > MaxParticipants THEN "capacity"
  ELSE IF r \in DOMAIN streams THEN "existing"
  ELSE "allocate"

\* startHLSStream(roomId, participants) up to its first await.
Start(j, r, n) ==
  /\ job[j].pc = "idle"
  /\ LET o == StartOutcome(r, n) IN
       /\ job' = [job EXCEPT ![j] =
            CASE o = "allocate" -> [@ EXCEPT !.pc = "alloc", !.roomId = r, !.n = n]
              [] o = "existing" -> [@ EXCEPT !.pc = "done", !.roomId = r, !.n = n,
                                              !.url = getStreamUrl(r)]
              [] OTHER -> [@ EXCEPT !.pc = "failed", !.roomId = r, !.n = n, !.err = o]]
       /\ dir' = IF o = "allocate" THEN MkDir(r) ELSE dir
  /\ UNCHANGED <<streams, stopSeen>>

\* A direct call of startHLSStream with a participant list of any length.
StartHLSStream(j, r, n) ==
  /\ n \in 0..MaxListLength
  /\ Start(j, r, n)
  /\ UNCHANGED sigVars

\* POST /api/hls/start/:roomId: the peers that registered both an audio and a
\* video producer.
EligiblePeers(r) ==
  {p \in {d.peerId : d \in getRoomProducers(r)} :
     \A k \in Kinds : \E d \in getRoomProducers(r) : d.peerId = p /\ d.kind = k}

\* Array.slice(0, 4) of the eligible peers.
RouteParticipants(r) ==
  IF Cardinality(EligiblePeers(r)) > 4 THEN 4 ELSE Cardinality(EligiblePeers(r))

\* The route answers 400 without calling startHLSStream when nobody is eligible.
HttpStart(j, r) ==
  /\ job[j].pc = "idle"
  /\ IF RouteParticipants(r) = 0
     THEN /\ job' = [job EXCEPT ![j] = [@ EXCEPT !.pc = "failed", !.roomId = r, !.err = "http400"]]
          /\ UNCHANGED <<streams, dir, stopSeen>>
     ELSE Start(j, r, RouteParticipants(r))
  /\ UNCHANGED sigVars

\* requestKeyframesForAllParticipants: the taps (by index) whose video
\* consumer is asked for a keyframe in one round.
requestKeyframesForAllParticipants(st) == 0..(st.taps - 1)

\* HLSManager.cleanup(stream): signal the process, close what the stream
\* holds in stream.participants, remove the output directory.
\* The SIGKILL timer is set whenever SIGTERM is sent; no timer is cleared.
cleanup(st) ==
  [st EXCEPT !.sigterm = (st.proc # "null") \/ @, !.closed = TRUE,
             !.killTimer = (st.proc # "null") \/ @]

RemoveDir(r) == [dir EXCEPT ![r] = "absent"]

\* One pass of the allocation loop: two plain transports and two consumers
\* are created and pushed to stream.participants.
AllocTap(j) ==
  /\ job[j].pc = "alloc"
  /\ job' = [job EXCEPT ![j] = [@ EXCEPT !.taps = @ + 1,
                                        !.pc = IF job[j].taps + 1 = job[j].n THEN "connect" ELSE "alloc"]]
  /\ UNCHANGED <<streams, dir, stopSeen, sigVars>>

\* The engine throws at the k-th await of a pass: the k handles the pass has
\* created so far are in no stream.participants entry; catch -> cleanup.
AllocFail(j, k) ==
  /\ job[j].pc = "alloc"
  /\ job' = [job EXCEPT ![j] = [cleanup(@) EXCEPT !.pc = "failed", !.err = "engine", !.loose = k]]
  /\ dir' = RemoveDir(job[j].roomId)
  /\ UNCHANGED <<streams, stopSeen, sigVars>>

\* startFFmpegProcessMultiParticipant: every tap's transports are connected
\* to its ports and its SDP files are written into the output directory.
Connect(j) ==
  /\ job[j].pc = "connect"
  /\ dir[job[j].roomId] # "absent"
  /\ job' = [job EXCEPT ![j] = [@ EXCEPT !.pc = "launch", !.ports = job[j].taps,
                                        !.sdp = [i \in 1..job[j].taps |-> SdpFrameSize(job[j].taps)]]]
  /\ UNCHANGED <<streams, dir, stopSeen, sigVars>>

\* transport.connect rejects, or writeFileSync finds the directory gone.
ConnectFail(j) ==
  /\ job[j].pc = "connect"
  /\ job' = [job EXCEPT ![j] = [cleanup(@) EXCEPT !.pc = "failed", !.err = "engine"]]
  /\ dir' = RemoveDir(job[j].roomId)
  /\ UNCHANGED <<streams, stopSeen, sigVars>>

\* After the settle delays and the RTP probe: stream.ffmpegProcess.run();
\* the "start" handler sets the keyframe timers; waitForFirstSegment starts
\* its clock.  sawReady is history: the directory held a referenced segment
\* while the readiness bound had not elapsed.
Launch(j) ==
  /\ job[j].pc = "launch"
  /\ job' = [job EXCEPT ![j] = [@ EXCEPT !.pc = "waiting", !.proc = "running",
                                        !.keyframeInterval = TRUE,
                                        !.rounds = 1,
                                        !.requested = requestKeyframesForAllParticipants(job[j]),
                                        !.filter = generateFilterComplex(job[j].taps),
                                        !.sawReady = (dir[job[j].roomId] = "ready")]]
  /\ UNCHANGED <<streams, dir, stopSeen, sigVars>>

\* The transcoder writes the manifest and its first segment.
FfmpegWrite(j) ==
  /\ job[j].proc = "running"
  /\ dir[job[j].roomId] = "empty"
  /\ dir' = [dir EXCEPT ![job[j].roomId] = "ready"]
  /\ job' = [o \in Jobs |->
              IF job[o].pc = "waiting" /\ job[o].roomId = job[j].roomId /\ ~job[o].expired
              THEN [job[o] EXCEPT !.sawReady = TRUE] ELSE job[o]]
  /\ UNCHANGED <<streams, stopSeen, sigVars>>

\* Mutant: the stopped stream stays in the map.
StreamsAfterStopKeeps(r) == streams

\* stopHLSStream(roomId): acts on whatever stream the map holds for the room.
StreamsAfterStop(r) == IF r \in DOMAIN streams THEN MapDelete(streams, r) ELSE streams

JobsAfterStop(jobs, r) ==
  IF r \in DOMAIN streams
  THEN [jobs EXCEPT ![streams[r]] = cleanup(@)]
  ELSE jobs

DirAfterStop(r) == IF r \in DOMAIN streams THEN RemoveDir(r) ELSE dir

\* The process reports "error" or "end": the handler calls stopHLSStream.
FfmpegExit(j) ==
  /\ job[j].proc = "running"
  /\ job' = JobsAfterStop([job EXCEPT ![j] = [@ EXCEPT !.proc = "exited"]], job[j].roomId)
  /\ streams' = StreamsAfterStop(job[j].roomId)
  /\ dir' = DirAfterStop(job[j].roomId)
  /\ UNCHANGED <<stopSeen, sigVars>>

\* Mutant: the interval is never cleared.
KeyframeNeverStops(j) ==
  /\ FALSE
  /\ UNCHANGED <<streams, job, dir, stopSeen, sigVars>>

\* The 5 s timer of the "start" handler: clearInterval(keyframeInterval).
KeyframeStop(j) ==
  /\ job[j].keyframeInterval
  /\ job' = [job EXCEPT ![j] = [@ EXCEPT !.keyframeInterval = FALSE]]
  /\ UNCHANGED <<streams, dir, stopSeen, sigVars>>

\* A keyframe timer fires: requestKeyFrame on the video consumer of every
\* entry of stream.participants.  late is history: the timers that acted on
\* the job after cleanup had run for it.
KeyframeTick(j) ==
  /\ job[j].keyframeInterval
  /\ job[j].rounds < MaxRounds
  /\ job' = [job EXCEPT ![j] = [@ EXCEPT !.rounds = @ + 1,
                                        !.requested = @ \cup requestKeyframesForAllParticipants(job[j]),
                                        !.late = IF job[j].closed THEN @ \cup {"keyframe"} ELSE @]]
  /\ UNCHANGED <<streams, dir, stopSeen, sigVars>>

\* 20 s after readiness: checkHLSOutput(stream) reads the output directory.
CheckOutputFires(j) ==
  /\ job[j].checkTimer
  /\ job' = [job EXCEPT ![j] = [@ EXCEPT !.checkTimer = FALSE,
                                        !.late = IF job[j].closed THEN @ \cup {"check"} ELSE @]]
  /\ UNCHANGED <<streams, dir, stopSeen, sigVars>>

\* 5 s after cleanup: stream.ffmpegProcess is still set, SIGKILL is sent.
KillTimerFires(j) ==
  /\ job[j].killTimer
  /\ job' = [job EXCEPT ![j] = [@ EXCEPT !.killTimer = FALSE,
                                        !.late = IF job[j].proc = "exited" THEN @ \cup {"kill"} ELSE @]]
  /\ UNCHANGED <<streams, dir, stopSeen, sigVars>>

\* Mutant: waitForFirstSegment has no timeout.
BoundNeverExpires(j) ==
  /\ FALSE
  /\ UNCHANGED <<streams, job, dir, stopSeen, sigVars>>

\* Date.now() - startTime exceeds timeoutMs (30 s, the keyframe timers end
\* after 5 s): the next tick will reject.
BoundExpires(j) ==
  /\ job[j].pc = "waiting"
  /\ ~job[j].expired
  /\ ~job[j].keyframeInterval
  /\ job' = [job EXCEPT ![j] = [@ EXCEPT !.expired = TRUE]]
  /\ UNCHANGED <<streams, dir, stopSeen, sigVars>>

\* A tick of waitForFirstSegment within the bound finds the manifest and the
\* segment it references: the stream is registered, the URL returned.
PollReady(j) ==
  /\ job[j].pc = "waiting"
  /\ ~job[j].expired
  /\ dir[job[j].roomId] = "ready"
  /\ streams' = MapSet(streams, job[j].roomId, j)
  /\ job' = [job EXCEPT ![j] = [@ EXCEPT !.pc = "done", !.url = getStreamUrl(job[j].roomId),
                                        !.checkTimer = TRUE]]
  /\ UNCHANGED <<dir, stopSeen, sigVars>>

\* The first tick after the readiness bound rejects; catch -> cleanup.
PollTimeout(j) ==
  /\ job[j].pc = "waiting"
  /\ job[j].expired
  /\ job' = [job EXCEPT ![j] = [cleanup(@) EXCEPT !.pc = "failed", !.err = "timeout"]]
  /\ dir' = RemoveDir(job[j].roomId)
  /\ UNCHANGED <<streams, stopSeen, sigVars>>

\* DELETE /api/hls/stop/:roomId -> stopHLSStream(roomId).
StopHLSStream(r) ==
  /\ job' = JobsAfterStop(job, r)
  /\ streams' = StreamsAfterStop(r)
  /\ dir' = DirAfterStop(r)
  /\ stopSeen' = [j \in Jobs |-> stopSeen[j] \/ (job[j].pc \in InFlight /\ job[j].roomId = r)]
  /\ UNCHANGED sigVars

\* A running server whose room 1 holds k publishers, each with an audio and a
\* video producer registered.
PublishedRoom(k) ==
  [peers |-> 1..k,
   producers |-> {Descriptor(2 * p - 1, "audio", p) : p \in 1..k}
                   \cup {Descriptor(2 * p, "video", p) : p \in 1..k}]

PublishedInit ==
  \E k \in 0..MaxPublishers :
    /\ connected = 1..k
    /\ rooms = IF k = 0 THEN EmptyMap ELSE [r \in {1} |-> PublishedRoom(k)]
    /\ peers = [p \in 1..k |-> 1]
    /\ transports = [t \in 1..k |-> t]
    /\ producers = [i \in 1..(2 * k) |-> (i + 1) \div 2]
    /\ produceReq = [s \in Sockets |-> NoKind]
    /\ nextProducer = 2 * k
    /\ created = [r \in RoomIds |-> IF r = 1 /\ k > 0 THEN 1 ELSE 0]
    /\ leaveLog = {}
    /\ consumers = EmptyMap
    /\ consumeReq = [s \in Sockets |-> 0]
    /\ nextConsumer = 0
    /\ announced = 1..(2 * k)
    /\ lastError = NoError

\* What every start goes through once it has passed the head of startHLSStream.
HlsSteps ==
  \/ \E j \in Jobs : AllocTap(j)
  \/ \E j \in Jobs, k \in 0..3 : AllocFail(j, k)
  \/ \E j \in Jobs : Connect(j)
  \/ \E j \in Jobs : ConnectFail(j)
  \/ \E j \in Jobs : Launch(j)
  \/ \E j \in Jobs : FfmpegWrite(j)
  \/ \E j \in Jobs : FfmpegExit(j)
  \/ \E j \in Jobs : KeyframeStop(j)
  \/ \E j \in Jobs : BoundExpires(j)
  \/ \E j \in Jobs : PollReady(j)
  \/ \E j \in Jobs : PollTimeout(j)
  \/ \E r \in RoomIds : StopHLSStream(r)

\* The callbacks of the timers a job has set.
TimerSteps ==
  \/ \E j \in Jobs : KeyframeTick(j)
  \/ \E j \in Jobs : CheckOutputFires(j)
  \/ \E j \in Jobs : KillTimerFires(j)

(***************************************************************************)
(* State of the class based generation: SignalingServer.clients, the Room  *)
(* objects of MediasoupManager with their Peer objects, and the HLSManager *)
(* that startHLSForRoom / stopHLSForRoom maintain.                         *)
(***************************************************************************)
VARIABLES
  bConnected,     \* sockets whose "disconnect" has not fired yet
  clients,        \* SignalingServer.clients: Map socket.id -> ClientInfo
  bRooms,         \* MediasoupManager.rooms: Map roomId -> Room
  bReq,           \* per socket: the request handler of that socket that is suspended
  stopping,       \* Map socket.id -> room whose stopHLSForRoom its disconnect awaits
  peerGen,        \* Peer objects created so far (their identity)
  bStreams,       \* HLSManager.streams: the rooms that hold a StreamInfo
  bProcs,         \* per room: running ffmpeg processes spawned for it
  bTermed,        \* per room: processes that were sent SIGTERM and still run
  bRouter,        \* MediasoupManager.router is set (initialize() has finished)
  bGroups,        \* socket.io rooms: the pairs <<socket.id, roomId>> made by socket.join
  bManifest,      \* per room: <roomId>.m3u8 references a segment that exists
  hlsReady        \* the hls-ready notifications emitted so far

bVars == <<bConnected, clients, bRooms, bReq, stopping, peerGen, bStreams, bProcs, bTermed,
          bRouter, bGroups,
          bManifest, hlsReady>>

\* The direction argument of create-transport ('send' | 'recv'); the handlers
\* treat both alike, one is explored.
Directions == {"send"}

NoReq == [stage |-> "none", roomId |-> 0, peer |-> 0, kind |-> NoKind, direction |-> "none"]

BInit ==
  /\ bConnected = Sockets
  /\ clients = EmptyMap
  /\ bRooms = EmptyMap
  /\ bReq = [s \in Sockets |-> NoReq]
  /\ stopping = EmptyMap
  /\ peerGen = 0
  /\ bStreams = {}
  /\ bProcs = [r \in RoomIds |-> 0]
  /\ bTermed = [r \in RoomIds |-> 0]
  /\ bRouter = FALSE
  /\ bGroups = {}
  /\ bManifest = [r \in RoomIds |-> FALSE]
  /\ hlsReady = {}

\* new Room(roomId, router)
NewRoomB == [peers |-> EmptyMap, broadcasters |-> EmptyMap]

\* new Peer(peerId, router); obj is the identity of the object.  transports
\* holds the directions that have an entry in Peer.transports, orphaned the
\* directions for which an engine transport was created and then overwritten
\* in that map (it stays open, nothing references it).
NewPeer(obj) == [obj |-> obj, transports |-> {}, producers |-> {}, orphaned |-> {}]

\* MediasoupManager.createRoom
createRoom(r) == IF r \in DOMAIN bRooms THEN bRooms ELSE MapSet(bRooms, r, NewRoomB)

\* Room.addPeer: viewers are stored in broadcasters, streamers in peers.
addPeer(room, s, isViewer, obj) ==
  IF isViewer
  THEN [room EXCEPT !.broadcasters = MapSet(@, s, NewPeer(obj))]
  ELSE [room EXCEPT !.peers = MapSet(@, s, NewPeer(obj))]

\* Room.getPeer: the peers map is looked up first.
HasPeer(room, s) == s \in DOMAIN room.peers \cup DOMAIN room.broadcasters
getPeer(room, s) == IF s \in DOMAIN room.peers THEN room.peers[s] ELSE room.broadcasters[s]

\* Room.removePeer
removePeer(room, s) ==
  [peers |-> MapDelete(room.peers, s), broadcasters |-> MapDelete(room.broadcasters, s)]

\* Room.getStreamers and Room.getViewers both list the broadcasters map.
getStreamers(room) == DOMAIN room.broadcasters
getViewers(room) == DOMAIN room.broadcasters

\* HLSManager.isHLSActive
isHLSActive(r) == r \in bStreams

\* socket.emit / io.to(room).emit of hls-ready, with what the output
\* directory holds at that moment.
EmitHlsReady(r) == hlsReady \cup {[roomId |-> r, manifest |-> bManifest[r]]}

\* join-room of a streamer: the new-producer messages sent to the joiner for
\* the producers of room.getStreamers() other than itself.
JoinSnapshot(room, s) ==
  {[userId |-> x, kind |-> k] : x \in getStreamers(room) \ {s}, k \in Kinds} \cap
  UNION {{[userId |-> x, kind |-> k] : k \in room.broadcasters[x].producers} :
           x \in getStreamers(room)}

\* MediasoupManager.initialize, started from the listen callback: the worker
\* and the router exist once its awaits have settled.
InitializeB ==
  /\ ~bRouter
  /\ bRouter' = TRUE
  /\ UNCHANGED <<bConnected, clients, bRooms, bReq, stopping, peerGen, bStreams, bProcs, bTermed,
                 bGroups, bManifest, hlsReady>>

\* MediasoupManager.createRoom throws when the room does not exist and the
\* router is not set.
createRoomThrows(r) == r \notin DOMAIN bRooms /\ ~bRouter

\* socket.on('join-room') when createRoom throws: clients.set and socket.join
\* have run, the catch block emits 'error'.
JoinFailB(s, r, isViewer) ==
  /\ s \in bConnected
  /\ createRoomThrows(r)
  /\ clients' = MapSet(clients, s, [roomId |-> r, isViewer |-> isViewer])
  /\ bGroups' = bGroups \cup {<<s, r>>}
  /\ UNCHANGED <<bConnected, bRooms, bReq, stopping, peerGen, bStreams, bProcs, bTermed, bRouter,
                 bManifest, hlsReady>>

\* socket.on('join-room')
JoinRoomB(s, r, isViewer) ==
  /\ s \in bConnected
  /\ ~createRoomThrows(r)
  /\ peerGen < MaxPeerObjects
  /\ peerGen' = peerGen + 1
  /\ clients' = MapSet(clients, s, [roomId |-> r, isViewer |-> isViewer])
  /\ bGroups' = bGroups \cup {<<s, r>>}
  /\ bRooms' = MapSet(createRoom(r), r, addPeer(createRoom(r)[r], s, isViewer, peerGen + 1))
  /\ hlsReady' = IF isViewer /\ isHLSActive(r) THEN EmitHlsReady(r) ELSE hlsReady
  /\ UNCHANGED <<bConnected, bReq, stopping, bStreams, bProcs, bTermed, bRouter, bManifest>>

\* The lookups every handler starts with: client, room, peer.
HasContext(s) ==
  /\ s \in DOMAIN clients
  /\ clients[s].roomId \in DOMAIN bRooms
  /\ HasPeer(bRooms[clients[s].roomId], s)

ContextPeer(s) == getPeer(bRooms[clients[s].roomId], s)

\* this.transports.set / this.producers.set on the Peer object obj, wherever
\* the room still holds it: v joins the collection named field.
UpdatePeer(room, obj, field, v) ==
  [peers |-> [x \in DOMAIN room.peers |->
                IF room.peers[x].obj = obj
                THEN [room.peers[x] EXCEPT ![field] = @ \cup {v}] ELSE room.peers[x]],
   broadcasters |-> [x \in DOMAIN room.broadcasters |->
                IF room.broadcasters[x].obj = obj
                THEN [room.broadcasters[x] EXCEPT ![field] = @ \cup {v}]
                ELSE room.broadcasters[x]]]

\* socket.on('create-transport') up to the await in Peer.createWebRtcTransport.
CreateTransportBeginB(s, d) ==
  /\ s \in bConnected
  /\ bReq[s].stage = "none"
  /\ HasContext(s)
  /\ bReq' = [bReq EXCEPT ![s] = [stage |-> "createTransport", roomId |-> clients[s].roomId,
                                  peer |-> ContextPeer(s).obj, kind |-> NoKind, direction |-> d]]
  /\ UNCHANGED <<bConnected, clients, bRooms, stopping, peerGen, bStreams, bProcs, bTermed, bRouter, bGroups, bManifest, hlsReady>>

\* The directions for which the Peer object obj of the room holds a transport.
TransportsOf(room, obj) ==
  UNION ({room.peers[x].transports : x \in {y \in DOMAIN room.peers : room.peers[y].obj = obj}}
         \cup {room.broadcasters[x].transports :
                 x \in {y \in DOMAIN room.broadcasters : room.broadcasters[y].obj = obj}})

\* Peer.createWebRtcTransport after its await: a new engine transport exists
\* and this.transports.set(direction, transport) replaces whatever the
\* direction held.
PeerCreateTransport(room, obj, d) ==
  IF d \in TransportsOf(room, obj)
  THEN UpdatePeer(UpdatePeer(room, obj, "orphaned", d), obj, "transports", d)
  ELSE UpdatePeer(room, obj, "transports", d)

\* The engine answers the create-transport request.
CreateTransportEndB(s) ==
  /\ bReq[s].stage = "createTransport"
  /\ LET r == bReq[s].roomId
     IN bRooms' = IF r \in DOMAIN bRooms
                  THEN MapSet(bRooms, r, PeerCreateTransport(bRooms[r], bReq[s].peer,
                                                             bReq[s].direction))
                  ELSE bRooms
  /\ bReq' = [bReq EXCEPT ![s] = NoReq]
  /\ UNCHANGED <<bConnected, clients, stopping, peerGen, bStreams, bProcs, bTermed, bRouter, bGroups, bManifest, hlsReady>>

\* socket.on('produce') up to the await of transport.produce().
ProduceBeginB(s, kind) ==
  /\ s \in bConnected
  /\ bReq[s].stage = "none"
  /\ HasContext(s)
  /\ ContextPeer(s).transports # {}
  /\ bReq' = [bReq EXCEPT ![s] = [stage |-> "produce", roomId |-> clients[s].roomId,
                                  peer |-> ContextPeer(s).obj, kind |-> kind, direction |-> "none"]]
  /\ UNCHANGED <<bConnected, clients, bRooms, stopping, peerGen, bStreams, bProcs, bTermed, bRouter, bGroups, bManifest, hlsReady>>

\* A lookup fails or the peer has no transport: 'error' to the sender only.
ProduceRejectB(s) ==
  /\ s \in bConnected
  /\ bReq[s].stage = "none"
  /\ ~(HasContext(s) /\ ContextPeer(s).transports # {})
  /\ UNCHANGED bVars

\* SignalingServer.checkAndStartHLS up to the first await of startHLSForRoom:
\* TRUE when a start is begun.
StartsHLS(rooms2, r) ==
  /\ r \in DOMAIN rooms2
  /\ ~isHLSActive(r)
  /\ \E x \in getStreamers(rooms2[r]) : rooms2[r].broadcasters[x].producers # {}

\* The engine answers the produce: the Peer stores the producer, the room is
\* notified and checkAndStartHLS runs.
ProduceEndB(s) ==
  /\ bReq[s].stage = "produce"
  /\ LET r == bReq[s].roomId
         rooms2 == IF r \in DOMAIN bRooms
                   THEN MapSet(bRooms, r, UpdatePeer(bRooms[r], bReq[s].peer, "producers",
                                                     bReq[s].kind))
                   ELSE bRooms
     IN /\ bRooms' = rooms2
        /\ bReq' = [bReq EXCEPT ![s] =
                      IF StartsHLS(rooms2, r) THEN [@ EXCEPT !.stage = "hlsTransport"] ELSE NoReq]
  /\ UNCHANGED <<bConnected, clients, stopping, peerGen, bStreams, bProcs, bTermed, bRouter, bGroups, bManifest, hlsReady>>

\* The engine rejects the produce.
ProduceFailB(s) ==
  /\ bReq[s].stage = "produce"
  /\ bReq' = [bReq EXCEPT ![s] = NoReq]
  /\ UNCHANGED <<bConnected, clients, bRooms, stopping, peerGen, bStreams, bProcs, bTermed, bRouter, bGroups, bManifest, hlsReady>>

\* startHLSForRoom: router.createPlainTransport() has resolved.
HlsTransportB(s) ==
  /\ bReq[s].stage = "hlsTransport"
  /\ bReq' = [bReq EXCEPT ![s] = [@ EXCEPT !.stage = "hlsConsume"]]
  /\ UNCHANGED <<bConnected, clients, bRooms, stopping, peerGen, bStreams, bProcs, bTermed, bRouter, bGroups, bManifest, hlsReady>>

\* startHLSForRoom: the consumers exist; ffmpeg is spawned, the StreamInfo is
\* stored and true is returned; checkAndStartHLS emits hls-ready.
HlsStartedB(s) ==
  /\ bReq[s].stage = "hlsConsume"
  /\ bProcs[bReq[s].roomId] + bTermed[bReq[s].roomId] < MaxProcs
  /\ bProcs' = [bProcs EXCEPT ![bReq[s].roomId] = @ + 1]
  /\ bStreams' = bStreams \cup {bReq[s].roomId}
  /\ hlsReady' = EmitHlsReady(bReq[s].roomId)
  /\ bReq' = [bReq EXCEPT ![s] = NoReq]
  /\ UNCHANGED <<bConnected, clients, bRooms, stopping, peerGen, bTermed, bRouter, bGroups, bManifest>>

\* startHLSForRoom: an engine call throws; false is returned.
HlsFailB(s) ==
  /\ bReq[s].stage \in {"hlsTransport", "hlsConsume"}
  /\ bReq' = [bReq EXCEPT ![s] = NoReq]
  /\ UNCHANGED <<bConnected, clients, bRooms, stopping, peerGen, bStreams, bProcs, bTermed, bRouter, bGroups, bManifest, hlsReady>>

\* A spawned ffmpeg writes the manifest and its first segment.
FfmpegWriteB(r) ==
  /\ bProcs[r] + bTermed[r] > 0
  /\ ~bManifest[r]
  /\ bManifest' = [bManifest EXCEPT ![r] = TRUE]
  /\ UNCHANGED <<bConnected, clients, bRooms, bReq, stopping, peerGen, bStreams, bProcs, bTermed, bRouter, bGroups, hlsReady>>

\* A process that was sent SIGTERM ends (when it honours the signal): the
\* 'close' handler logs the exit code.
FfmpegExitB(r) ==
  /\ bTermed[r] > 0
  /\ bTermed' = [bTermed EXCEPT ![r] = @ - 1]
  /\ UNCHANGED <<bConnected, clients, bRooms, bReq, stopping, peerGen, bStreams, bProcs, bManifest,
                 bRouter, bGroups, hlsReady>>

\* MediasoupManager.removeRoom
removeRoom(rooms2, r) == IF r \in DOMAIN rooms2 THEN MapDelete(rooms2, r) ELSE rooms2

\* socket.on('disconnect') up to the file system awaits of stopHLSForRoom.
\* The socket has left its socket.io rooms when the event fires.
DisconnectB(s) ==
  /\ s \in bConnected
  /\ bConnected' = bConnected \ {s}
  /\ IF s \notin DOMAIN clients
     THEN UNCHANGED <<clients, bRooms, stopping, bProcs, bTermed>>
     ELSE LET r == clients[s].roomId IN
       IF r \notin DOMAIN bRooms
       THEN /\ clients' = MapDelete(clients, s)
            /\ UNCHANGED <<bRooms, stopping, bProcs, bTermed>>
       ELSE LET left == removePeer(bRooms[r], s)
                last == getStreamers(left) = {} /\ getViewers(left) = {}
            IN IF last /\ isHLSActive(r)
               THEN \* kill('SIGTERM'), plainTransport.close(), then await fs.unlink
                    /\ bRooms' = MapSet(bRooms, r, left)
                    /\ bProcs' = [bProcs EXCEPT ![r] = IF @ > 0 THEN @ - 1 ELSE 0]
                    /\ bTermed' = [bTermed EXCEPT ![r] = IF bProcs[r] > 0 THEN @ + 1 ELSE @]
                    /\ stopping' = MapSet(stopping, s, r)
                    /\ UNCHANGED clients
               ELSE /\ bRooms' = IF last THEN removeRoom(MapSet(bRooms, r, left), r)
                                 ELSE MapSet(bRooms, r, left)
                    /\ clients' = MapDelete(clients, s)
                    /\ UNCHANGED <<stopping, bProcs, bTermed>>
  /\ bGroups' = {g \in bGroups : g[1] # s}
  /\ UNCHANGED <<bReq, peerGen, bStreams, bManifest, bRouter, hlsReady>>

\* stopHLSForRoom after its unlinks: streams.delete; the disconnect handler
\* removes the room and the client entry.
StopFinishB(s) ==
  /\ s \in DOMAIN stopping
  /\ bStreams' = bStreams \ {stopping[s]}
  /\ bManifest' = [bManifest EXCEPT ![stopping[s]] = FALSE]
  /\ bRooms' = removeRoom(bRooms, stopping[s])
  /\ clients' = MapDelete(clients, s)
  /\ stopping' = MapDelete(stopping, s)
  /\ UNCHANGED <<bConnected, bReq, peerGen, bProcs, bTermed, bRouter, bGroups, hlsReady>>

BNext ==
  \/ InitializeB
  \/ \E s \in Sockets, r \in RoomIds, v \in BOOLEAN : JoinFailB(s, r, v)
  \/ \E s \in Sockets, r \in RoomIds, v \in BOOLEAN : JoinRoomB(s, r, v)
  \/ \E s \in Sockets, d \in Directions : CreateTransportBeginB(s, d)
  \/ \E s \in Sockets : CreateTransportEndB(s)
  \/ \E s \in Sockets, k \in Kinds : ProduceBeginB(s, k)
  \/ \E s \in Sockets : ProduceRejectB(s)
  \/ \E s \in Sockets : ProduceEndB(s)
  \/ \E s \in Sockets : ProduceFailB(s)
  \/ \E s \in Sockets : HlsTransportB(s)
  \/ \E s \in Sockets : HlsStartedB(s)
  \/ \E s \in Sockets : HlsFailB(s)
  \/ \E r \in RoomIds : FfmpegWriteB(r)
  \/ \E r \in RoomIds : FfmpegExitB(r)
  \/ \E s \in Sockets : DisconnectB(s)
  \/ \E s \in Sockets : StopFinishB(s)

vars == <<sigVars, hlsVars, bVars>>

(***************************************************************************)
(* Specifications.                                                         *)
(*   Spec      the signaling handlers of WebSocket.ts                      *)
(*   SpecMedia the produce, consume and resume handlers of WebSocket.ts    *)
(*             over sockets that have joined room 1 or no room             *)
(*   SpecHLS   the HLS manager called with participant lists of any length *)
(*   SpecRoute the HLS manager called through POST /api/hls/start/:roomId  *)
(*             over a room registry that holds up to MaxPublishers peers   *)
(*   SpecB     the SignalingServer with Room/Peer and startHLSForRoom      *)
(***************************************************************************)
Init == SigInit /\ HlsInit /\ BInit
Next == SigNext /\ UNCHANGED <<hlsVars, bVars>>
Spec == Init /\ [][Next]_vars

InitMedia == JoinedInit /\ HlsInit /\ BInit
NextMedia == MediaNext /\ UNCHANGED <<hlsVars, bVars>>
SpecMedia == InitMedia /\ [][NextMedia]_vars

InitHLS == SigInit /\ HlsInit /\ BInit
NextHLS ==
  /\ \/ \E j \in Jobs, r \in RoomIds, n \in 0..MaxListLength : StartHLSStream(j, r, n)
     \/ HlsSteps
  /\ UNCHANGED bVars
SpecHLS == InitHLS /\ [][NextHLS]_vars

InitRoute == PublishedInit /\ HlsInit /\ BInit
NextRoute ==
  /\ \/ \E j \in Jobs, r \in RoomIds : HttpStart(j, r)
     \/ HlsSteps
  /\ UNCHANGED bVars
SpecRoute == InitRoute /\ [][NextRoute]_vars

InitTimers == SigInit /\ HlsInit /\ BInit
NextTimers ==
  /\ \/ \E r \in RoomIds, n \in 0..MaxListLength : StartHLSStream(1, r, n)
     \/ HlsSteps
     \/ TimerSteps
  /\ UNCHANGED bVars
SpecTimers == InitTimers /\ [][NextTimers]_vars

\* The awaited engine calls of a start settle: they resolve or reject.
EngineReturns(j) ==
  /\ \/ AllocTap(j)
     \/ \E k \in 0..3 : AllocFail(j, k)
     \/ Connect(j)
     \/ ConnectFail(j)
  /\ UNCHANGED bVars

\* The timers a start sleeps on run out: the settle delays and the 5 s limit
\* of every RTP probe before the launch, the 500 ms ticks and the 30 s bound of
\* waitForFirstSegment, the 5 s limit of the keyframe interval.
TimersElapse(j) ==
  /\ \/ Launch(j)
     \/ KeyframeStop(j)
     \/ BoundExpires(j)
     \/ PollReady(j)
     \/ PollTimeout(j)
  /\ UNCHANGED bVars

\* SpecTimers with the event loop running due timers and the engine answering;
\* the transcoder and the callers of stop are under no obligation.
SpecTimersFair ==
  /\ InitTimers
  /\ [][NextTimers]_vars
  /\ \A j \in Jobs : WF_vars(EngineReturns(j)) /\ WF_vars(TimersElapse(j))

InitB == SigInit /\ HlsInit /\ BInit
NextB == BNext /\ UNCHANGED <<sigVars, hlsVars>>
SpecB == InitB /\ [][NextB]_vars

\* The awaited engine and file system calls of a socket's handlers settle.
AwaitsSettleB(s) ==
  /\ \/ CreateTransportEndB(s)
     \/ ProduceEndB(s)
     \/ ProduceFailB(s)
     \/ HlsTransportB(s)
     \/ HlsStartedB(s)
     \/ HlsFailB(s)
     \/ StopFinishB(s)
  /\ UNCHANGED <<sigVars, hlsVars>>

\* SpecB with every await settling; a process is under no obligation to end.
SpecBFair == InitB /\ [][NextB]_vars /\ \A s \in Sockets : WF_vars(AwaitsSettleB(s))

(***************************************************************************)
(* C1: the room registry never holds a room without participants: the      *)
(* disconnect that removes the last participant deletes the room, so       *)
(* getRoomList never lists a room with 0 participants.                     *)
(***************************************************************************)
C1_NoEmptyRoom ==
  /\ \A r \in DOMAIN rooms : rooms[r].peers # {}
  /\ \A e \in getRoomList : e.participants > 0

\* Socket 1 has left: its disconnect emptied and deleted room 2 (the room its
\* registry entry named), socket 2 never joined anything.
C1_Witness ==
  /\ 1 \notin connected
  /\ 2 \in connected /\ 2 \notin DOMAIN peers
  /\ DOMAIN rooms = {1}

(***************************************************************************)
(* C2: every producer descriptor of a room's registry is owned by a        *)
(* current member of that room's participant set.                          *)
(***************************************************************************)
C2_ProducerOwnerPresent ==
  \A r \in DOMAIN rooms : \A d \in rooms[r].producers : d.peerId \in rooms[r].peers

\* A socket has produced and left, another one's descriptor is registered.
C2_Witness ==
  /\ connected # Sockets
  /\ nextProducer = 2
  /\ \E r \in DOMAIN rooms : Cardinality(rooms[r].producers) = 1

(***************************************************************************)
(* C3: concurrent starts for one room allocate one job only: at no time do *)
(* two invocations hold open taps for the same room.                       *)
(***************************************************************************)
C3_SingleAllocation ==
  \A r \in RoomIds :
    Cardinality({j \in Jobs : job[j].roomId = r /\ job[j].taps > 0 /\ ~job[j].closed}) <= 1

(***************************************************************************)
(* C4: stopHLSStream on a registered job leaves its process signalled, its *)
(* taps closed, the output directory removed and the room unregistered;    *)
(* stopHLSStream for a room without a registered job changes nothing.      *)
(***************************************************************************)
C4_StopCleansUp ==
  [][\A r \in RoomIds :
       StopHLSStream(r) =>
         IF r \in DOMAIN streams
         THEN /\ job'[streams[r]].sigterm
              /\ job'[streams[r]].closed
              /\ dir'[r] = "absent"
              /\ r \notin DOMAIN streams'
         ELSE UNCHANGED <<streams, job, dir>>]_vars

\* The only job there is was registered and has been stopped while its
\* process was running.
C4_Witness ==
  \E j \in Jobs :
    /\ job[j].pc = "done" /\ job[j].taps > 0 /\ job[j].proc = "running"
    /\ job[j].sigterm /\ job[j].closed
    /\ dir[job[j].roomId] = "absent"
    /\ ~isStreamActive(job[j].roomId)
    /\ \A o \in Jobs \ {j} : job[o].pc = "idle"

(***************************************************************************)
(* C5: a stop that arrives while a start is in flight aborts it: once the  *)
(* start has finished, the room has no running unsignalled process, no     *)
(* open tap, no output directory and no registered job.                    *)
(***************************************************************************)
C5_StopAbortsStart ==
  \A j \in Jobs :
    (stopSeen[j] /\ job[j].pc \in Finished) =>
      /\ job[j].taps > 0 => job[j].closed
      /\ job[j].proc = "running" => job[j].sigterm
      /\ dir[job[j].roomId] = "absent"
      /\ ~isStreamActive(job[j].roomId)

(***************************************************************************)
(* C6: a job whose process has reported error or end is never registered   *)
(* as active.                                                              *)
(***************************************************************************)
C6_ExitedNeverActive ==
  \A r \in DOMAIN streams : job[streams[r]].proc # "exited"

(***************************************************************************)
(* C8: when no referenced segment shows up within the readiness bound, the *)
(* start fails with the timeout error and leaves the job's process         *)
(* signalled, its taps closed, the output directory removed and the room   *)
(* absent from the active-streams map.                                     *)
(***************************************************************************)
C8_TimeoutCleansUp ==
  [][\A j \in Jobs :
       (PollTimeout(j) /\ ~job[j].sawReady) =>
         /\ job'[j].err = "timeout"
         /\ job'[j].sigterm
         /\ job'[j].closed
         /\ dir'[job[j].roomId] = "absent"
         /\ ~isStreamActive(job[j].roomId)']_vars

(***************************************************************************)
(* C9: startHLSStream with more than 4 participants fails and has no       *)
(* effect: no directory, no tap, no port, no process, no registration.     *)
(***************************************************************************)
C9_CapacityNoEffect ==
  [][\A j \in Jobs, r \in RoomIds, n \in (MaxParticipants + 1)..MaxListLength :
       StartHLSStream(j, r, n) =>
         /\ job'[j].pc = "failed" /\ job'[j].err = "capacity"
         /\ job'[j].taps = 0 /\ job'[j].loose = 0 /\ job'[j].ports = 0
         /\ job'[j].proc = "null"
         /\ \A o \in Jobs \ {j} : job'[o] = job[o]
         /\ UNCHANGED <<streams, dir>>]_vars

C9_Witness ==
  \E j \in Jobs : job[j].err = "capacity" /\ job[j].n > MaxParticipants

(***************************************************************************)
(* C10: the start route refuses a room with more than 4 eligible peers.    *)
(***************************************************************************)
C10_RouteRefusesOverCapacity ==
  [][\A j \in Jobs, r \in RoomIds :
       (HttpStart(j, r) /\ Cardinality(EligiblePeers(r)) > MaxParticipants) =>
         job'[j].pc = "failed"]_vars

(***************************************************************************)
(* C7: nobody is told that the stream is ready before the manifest         *)
(* references a segment that exists: every hls-ready notification is       *)
(* emitted with such a manifest in place.                                  *)
(***************************************************************************)
C7_ReadyOnlyAfterReadiness ==
  \A e \in hlsReady : e.manifest

(***************************************************************************)
(* C11: a start for a room that already has a registered job returns that  *)
(* job's URL whatever the participant list is (empty and oversized lists   *)
(* included) and changes nothing else.                                     *)
(***************************************************************************)
C11_ExistingJobIdempotent ==
  [][\A j \in Jobs, r \in RoomIds, n \in 0..MaxListLength :
       (StartHLSStream(j, r, n) /\ isStreamActive(r)) =>
         /\ job'[j].pc = "done" /\ job'[j].url = getStreamUrl(r)
         /\ job'[j].taps = 0 /\ job'[j].proc = "null"
         /\ \A o \in Jobs \ {j} : job'[o] = job[o]
         /\ UNCHANGED <<streams, dir>>]_vars

(***************************************************************************)
(* C12: when the leave notification for P is emitted, the producer         *)
(* registry of the room it is emitted to lists no descriptor owned by P.   *)
(***************************************************************************)
C12_LeaveAfterProducerRemoval ==
  \A e \in leaveLog : ~e.listed

\* A leave was announced for a participant whose descriptors the room listed.
C12_Witness ==
  \E e \in leaveLog : e.hadProducers /\ ~e.listed

(***************************************************************************)
(* C13: the engine resources of P (producers, transports) are closed and   *)
(* released before the leave notification for P is emitted.                *)
(***************************************************************************)
C13_CascadeBeforeLeave ==
  \A e \in leaveLog : ~e.open

(***************************************************************************)
(* C14: once a participant has disconnected, no transport and no producer  *)
(* created on its behalf is held in a registry of the media manager.       *)
(***************************************************************************)
C14_NothingHeldAfterDisconnect ==
  \A s \in Sockets \ connected :
    /\ \A t \in DOMAIN transports : transports[t] # s
    /\ \A id \in DOMAIN producers : producers[id] # s

(***************************************************************************)
(* C20: a produce request that names a transport which was not created for *)
(* the requesting connection is refused.                                   *)
(***************************************************************************)
C20_ForeignTransportRefused ==
  [][\A s \in Sockets, t \in 1..MaxTransports, k \in Kinds :
       ProduceBegin(s, t, k) => transports[t] = s]_vars

(***************************************************************************)
(* C17: joins to one room id, in any order, create exactly one room object *)
(* for it, and every joiner is attached to that object: a join to a known  *)
(* id creates nothing and keeps the earlier joiners in the room.           *)
(***************************************************************************)
C17_OneRoomPerId ==
  [][\A s \in Sockets, r \in RoomIds :
       JoinRoom(s, r) =>
         /\ connected = Sockets => created'[r] = 1
         /\ r \in DOMAIN rooms => created' = created /\ rooms[r].peers \subseteq rooms'[r].peers
         /\ s \in rooms'[r].peers]_vars

\* Every connection has joined room 1, nobody has left, one object was made.
C17_Witness ==
  /\ connected = Sockets
  /\ 1 \in DOMAIN rooms /\ rooms[1].peers = Sockets
  /\ created[1] = 1

(***************************************************************************)
(* C15: when the handling of a disconnect is over and the room is gone or  *)
(* holds neither a streamer nor anybody with a producer, no composition    *)
(* job is active for that room.                                            *)
(***************************************************************************)
C15_NoJobWithoutPublishers ==
  [][\A s \in Sockets :
       LET NoPublisher(r) ==
             \/ r \notin DOMAIN bRooms'
             \/ /\ DOMAIN bRooms'[r].peers = {}
                /\ \A x \in DOMAIN bRooms'[r].broadcasters :
                     bRooms'[r].broadcasters[x].producers = {}
       IN /\ (DisconnectB(s) /\ s \in DOMAIN clients /\ s \notin DOMAIN stopping'
                /\ NoPublisher(clients[s].roomId)) => clients[s].roomId \notin bStreams'
          /\ (StopFinishB(s) /\ NoPublisher(stopping[s])) => stopping[s] \notin bStreams']_vars

(***************************************************************************)
(* C16: a connection that joins a room as a streamer learns of every       *)
(* producer the other participants already hold: each of them is in the    *)
(* snapshot sent on join (no notification will follow for them).           *)
(***************************************************************************)
C16_SnapshotComplete ==
  [][\A s \in Sockets, r \in RoomIds :
       JoinRoomB(s, r, FALSE) =>
         \A x \in (DOMAIN bRooms'[r].peers \cup DOMAIN bRooms'[r].broadcasters) \ {s} :
           \A k \in getPeer(bRooms'[r], x).producers :
             [userId |-> x, kind |-> k] \in JoinSnapshot(bRooms'[r], s)]_vars

(***************************************************************************)
(* C18: adding a participant whose id the room already holds is refused    *)
(* and leaves the existing participant object and what it owns unchanged.  *)
(***************************************************************************)
C18_DuplicateJoinRefused ==
  [][\A s \in Sockets, r \in RoomIds, v \in BOOLEAN :
       (JoinRoomB(s, r, v) /\ r \in DOMAIN bRooms /\ HasPeer(bRooms[r], s)) =>
         bRooms'[r] = bRooms[r]]_vars

(***************************************************************************)
(* C19: a participant holds at most one transport per direction: a second  *)
(* create-transport for a direction creates no further engine transport.   *)
(***************************************************************************)
C19_OneTransportPerDirection ==
  \A r \in DOMAIN bRooms :
    /\ \A x \in DOMAIN bRooms[r].peers : bRooms[r].peers[x].orphaned = {}
    /\ \A x \in DOMAIN bRooms[r].broadcasters : bRooms[r].broadcasters[x].orphaned = {}

(***************************************************************************)
(* C25: the layout depends on the tap count only: 1 full frame, 2 halves   *)
(* side by side, 3 one large tile plus two stacked ones, 4 a 2x2 grid,     *)
(* each with an audio mix of as many inputs; any other count is rejected;  *)
(* a launched job carries the layout of its tap count.                     *)
(***************************************************************************)
C25_LayoutByCount ==
  /\ generateFilterComplex(1).tiles = << <<1280, 720>> >>
  /\ generateFilterComplex(2).tiles = << <<640, 720>>, <<640, 720>> >>
  /\ generateFilterComplex(2).arrange = "hstack"
  /\ LET t == generateFilterComplex(3).tiles
     IN /\ Len(t) = 3
        /\ t[1][2] = 720 /\ t[2][2] + t[3][2] = 720 /\ t[2] = t[3]
        /\ t[1][1] + t[2][1] = 1280 /\ t[1][1] > t[2][1]
  /\ generateFilterComplex(4).tiles = [i \in 1..4 |-> <<640, 360>>]
  /\ \A n \in 0..MaxListLength :
       IF n \in 1..MaxParticipants
       THEN generateFilterComplex(n).amix = n /\ Len(generateFilterComplex(n).tiles) = n
       ELSE generateFilterComplex(n).arrange = "error"
  /\ \A j \in Jobs : job[j].proc # "null" => job[j].filter = generateFilterComplex(job[j].taps)
  /\ \A j, o \in Jobs :
       (job[j].proc # "null" /\ job[o].proc # "null" /\ job[j].taps = job[o].taps)
         => job[j].filter = job[o].filter

\* A job was launched with three taps.
C25_Witness ==
  \E j \in Jobs : job[j].proc = "running" /\ job[j].taps = 3 /\ job[j].filter.amix = 3

(***************************************************************************)
(* C26: within one job the four ports of a tap are pairwise distinct and   *)
(* no port belongs to two taps.                                            *)
(***************************************************************************)
C26_PortsDisjointWithinJob ==
  \A j \in Jobs :
    /\ \A i \in 0..(job[j].taps - 1) : Cardinality(PortSet(i)) = 4
    /\ \A i, k \in 0..(job[j].taps - 1) : i # k => PortSet(i) \cap PortSet(k) = {}
    /\ Cardinality(AssignedPorts(job[j])) = 4 * job[j].taps

\* A job holds four taps whose transports are connected to their ports.
C26_Witness ==
  \E j \in Jobs : job[j].taps = MaxParticipants /\ job[j].ports = MaxParticipants

(***************************************************************************)
(* C27: two jobs that exist at the same time (allocating or live) never   *)
(* have a port in common, stated here for jobs of different rooms.         *)
(***************************************************************************)
C27_PortsDisjointAcrossJobs ==
  \A j, o \in Jobs :
    (j # o /\ job[j].taps > 0 /\ job[o].taps > 0 /\ ~job[j].closed /\ ~job[o].closed
         /\ job[j].roomId # job[o].roomId)
      => AssignedPorts(job[j]) \cap AssignedPorts(job[o]) = {}

(***************************************************************************)
(* C28: when a start has failed, every transport and consumer the attempt  *)
(* created is closed: the taps it stored are closed and no handle created  *)
(* outside of them is left open.                                           *)
(***************************************************************************)
C28_FailedStartReleasesAll ==
  \A j \in Jobs :
    (job[j].pc = "failed" /\ job[j].err \in {"engine", "timeout"}) =>
      /\ job[j].closed
      /\ job[j].loose = 0

(***************************************************************************)
(* C29: once a job has been torn down, no timer set for it acts on it: no  *)
(* keyframe request goes to its closed consumers, no kill signal to its    *)
(* ended process, no output check reads its removed directory.             *)
(***************************************************************************)
C29_NoTimerAfterTeardown ==
  \A j \in Jobs : job[j].late = {}

(***************************************************************************)
(* C30: every startHLSStream call completes: a call that is in flight      *)
(* eventually returns or throws; a call that returned left its room        *)
(* registered, until a teardown, with the room's URL; a call that threw    *)
(* left its job unregistered.                                              *)
(***************************************************************************)
C30_StartCompletes ==
  /\ \A j \in Jobs : (job[j].pc \in InFlight) ~> (job[j].pc \in Finished)
  /\ [](\A j \in Jobs :
          /\ (job[j].pc = "done" /\ ~job[j].closed) =>
               /\ job[j].roomId \in DOMAIN streams
               /\ job[j].url = getStreamUrl(job[j].roomId)
          /\ job[j].pc = "failed" => \A r \in DOMAIN streams : streams[r] # j)

\* A start was ended by the readiness bound and left nothing registered.
C30_Witness ==
  \E j \in Jobs :
    /\ job[j].pc = "failed" /\ job[j].err = "timeout" /\ job[j].expired
    /\ \A r \in DOMAIN streams : streams[r] # j

(***************************************************************************)
(* C21: a consume request succeeds only if the producer id it names is at  *)
(* that moment listed in the producer registry of some room.               *)
(***************************************************************************)
C21_ConsumeOnlyListed ==
  [][\A s \in Sockets :
       ConsumeEnd(s) =>
         \E r \in DOMAIN rooms : \E d \in rooms[r].producers : d.producerId = consumeReq[s]]_vars

(***************************************************************************)
(* C22: a consumer is paused when it is created and stays paused until a   *)
(* resume-consumer request for its id succeeds; a resume-consumer for an   *)
(* unknown id is answered with an error and resumes nothing.               *)
(***************************************************************************)
C22_PausedUntilResumed ==
  [][\A c \in 1..MaxConsumers :
       /\ (c \notin DOMAIN consumers /\ c \in DOMAIN consumers') => consumers'[c].paused
       /\ (/\ c \in DOMAIN consumers /\ c \in DOMAIN consumers'
           /\ consumers[c].paused /\ ~consumers'[c].paused)
            => \E s \in Sockets : ResumeConsumer(s, c)
       /\ \A s \in Sockets :
            ResumeUnknown(s, c) =>
              /\ consumers' = consumers
              /\ lastError' = [to |-> s, request |-> "resume-consumer"]]_vars

\* A consumer was created and then resumed.
C22_Witness ==
  \E c \in DOMAIN consumers : ~consumers[c].paused /\ nextConsumer = c

(***************************************************************************)
(* C23: a transport, producer or consumer is created only for a connection *)
(* that is joined to a room at that moment: not before its join, not after *)
(* its disconnect.                                                         *)
(***************************************************************************)
C23_MediaOnlyWhenJoined ==
  [][\A s \in Sockets :
       (CreateTransport(s) \/ ProduceEnd(s) \/ ConsumeEnd(s))
         => (s \in connected /\ s \in DOMAIN peers)]_vars

(***************************************************************************)
(* C24: a produce or consume request that fails leaves the participant set *)
(* and the producer registry of every room as they were, emits no          *)
(* new-producer notification, and its error goes to the requester.         *)
(***************************************************************************)
C24_FailureChangesNothing ==
  [][\A s \in Sockets :
       (\/ ProduceFail(s)
        \/ \E t \in 1..MaxTransports : ProduceUnknownTransport(s, t)
        \/ ConsumeFail(s)
        \/ \E t \in 1..MaxTransports, p \in 1..MaxProducers, can \in BOOLEAN :
             ConsumeReject(s, t, p, can))
         => /\ rooms' = rooms
            /\ peers' = peers
            /\ announced' = announced
            /\ lastError'.to = s]_vars

\* A request of a room member failed while the room listed a producer.
C24_Witness ==
  /\ lastError.request \in {"produce", "consume"}
  /\ lastError.to \in DOMAIN peers
  /\ peers[lastError.to] \in DOMAIN rooms
  /\ rooms[peers[lastError.to]].producers # {}

(***************************************************************************)
(* C31: after a job is stopped, its transcoder process is eventually no    *)
(* longer running, whether or not it honours the graceful signal.          *)
(***************************************************************************)
C31_StoppedProcessEnds ==
  \A r \in RoomIds : (bTermed[r] > 0) ~> (bTermed[r] = 0)

(***************************************************************************)
(* C32: the status query of a room reports active with the URL             *)
(* /hls/<roomId>/stream.m3u8 exactly when a job is registered for the      *)
(* room, and inactive with a null URL otherwise; in particular it reports  *)
(* inactive once the only start made for the room has failed, has been     *)
(* torn down by a stop, or has seen its transcoder exit.                   *)
(***************************************************************************)
C32_StatusFollowsRegistry ==
  \A r \in RoomIds :
    /\ HlsStatus(r).isActive = (r \in DOMAIN streams)
    /\ HlsStatus(r).streamUrl =
         IF r \in DOMAIN streams THEN <<"hls", r, "stream.m3u8">> ELSE <<"null">>
    /\ \A j \in Jobs :
         (/\ job[j].roomId = r
          /\ \A o \in Jobs \ {j} : job[o].roomId # r
          /\ job[j].pc \in Finished
          /\ (job[j].pc = "failed" \/ job[j].closed \/ job[j].proc = "exited"))
           => ~HlsStatus(r).isActive

(***************************************************************************)
(* C33: once the transcoder has started, a keyframe has been requested     *)
(* from the video consumer of every tap, and the repetition is bounded:    *)
(* the periodic request is eventually stopped and the number of request    *)
(* rounds of a job never exceeds what fits into the warm-up window.        *)
(***************************************************************************)
C33_KeyframeRoundsBounded ==
  /\ [](\A j \in Jobs :
          /\ job[j].proc # "null" =>
               /\ job[j].requested = 0..(job[j].taps - 1)
               /\ job[j].rounds \in 1..3
          /\ job[j].proc = "null" => (job[j].rounds = 0 /\ ~job[j].keyframeInterval))
  /\ \A j \in Jobs : job[j].keyframeInterval ~> ~job[j].keyframeInterval

\* A job with two taps has issued every round and stopped the repetition.
C33_Witness ==
  \E j \in Jobs :
    /\ job[j].taps = 2 /\ job[j].requested = {0, 1}
    /\ job[j].rounds = MaxRounds /\ ~job[j].keyframeInterval

(***************************************************************************)
(* C34: for every tap count 1..4 and every tap, the width and height       *)
(* written into the tap's video session description are the scale          *)
(* dimensions the layout of that tap count gives the tap.                  *)
(***************************************************************************)
C34_SdpSizeMatchesLayout ==
  \A j \in Jobs :
    job[j].ports > 0 =>
      \A i \in 1..job[j].taps : job[j].sdp[i] = generateFilterComplex(job[j].taps).tiles[i]

(***************************************************************************)
(* C35: an error or end event of a transcoder process tears down only the  *)
(* job that owns the process: when the event of a job that was started    *)
(* and then stopped arrives late, no other job is touched and the job      *)
(* registered for the room stays registered.                               *)
(***************************************************************************)
C35_ExitTearsDownOwnJobOnly ==
  [][\A j \in Jobs :
       (job[j].pc = "done" /\ job[j].closed /\ FfmpegExit(j)) =>
         /\ \A o \in Jobs \ {j} : job'[o] = job[o]
         /\ streams' = streams]_vars

(***************************************************************************)
(* C36: the room registry and the connection registry agree: every member  *)
(* of a room's participant set is a connected socket whose registry entry  *)
(* names that room, so no socket is a member of two rooms, however often   *)
(* it has sent join-room.                                                  *)
(***************************************************************************)
C36_RegistriesAgree ==
  /\ \A r \in DOMAIN rooms : \A s \in rooms[r].peers :
       s \in connected /\ s \in DOMAIN peers /\ peers[s] = r
  /\ \A s \in Sockets : Cardinality({r \in DOMAIN rooms : s \in rooms[r].peers}) <= 1

(***************************************************************************)
(* C37: when a connection has disconnected while a produce or consume      *)
(* request of it was awaiting the engine, then, once that request has      *)
(* finished too, the engine-side producer and consumer registries hold no  *)
(* entry owned by the connection.                                          *)
(***************************************************************************)
C37_NoEntryAfterLateAnswer ==
  \A s \in Sockets :
    (s \notin connected /\ produceReq[s] = NoKind /\ consumeReq[s] = 0) =>
      /\ \A id \in DOMAIN producers : producers[id] # s
      /\ \A c \in DOMAIN consumers : consumers[c].peerId # s


\* C38: in every room, getStreamers() lists exactly the peers that were
\* added with isViewer = false and getViewers() exactly those added with
\* isViewer = true; the two lists are disjoint and together they are all
\* the peers of the room.
C38_ListsPartitionPeers ==
  \A r \in DOMAIN bRooms :
    LET room == bRooms[r]
        addedAsStreamer == DOMAIN room.peers
        addedAsViewer == DOMAIN room.broadcasters
    IN /\ getStreamers(room) = addedAsStreamer
       /\ getViewers(room) = addedAsViewer
       /\ getStreamers(room) \cap getViewers(room) = {}
       /\ getStreamers(room) \cup getViewers(room) = addedAsStreamer \cup addedAsViewer


\* C39: a join-room request that fails because the room could not be created
\* leaves no trace: afterwards the connection has no entry in the client
\* registry, is not in the notification group of the room and is not a peer
\* of any room.
C39_FailedJoinLeavesNoTrace ==
  [][\A s \in Sockets, r \in RoomIds, v \in BOOLEAN :
       JoinFailB(s, r, v) =>
         /\ s \notin DOMAIN clients'
         /\ <<s, r>> \notin bGroups'
         /\ \A q \in DOMAIN bRooms' : ~HasPeer(bRooms'[q], s)]_vars

====
